---- MODULE Spec2Model ----
(***************************************************************************)
(* Model of bashbot (src/main.py): a Telegram bot that serves random       *)
(* quotes out of a buffer kept in the local variable `quotes` of the one   *)
(* process-wide generator random_quote = random_quote_generator().         *)
(*                                                                         *)
(* One generator frame exists.  A handler thread enters it with            *)
(* next(random_quote); the frame then runs the try body (line 58-59) and,  *)
(* on any exception, the except body (line 61-62) until it reaches the     *)
(* yield, or until an exception leaves the frame, which closes the         *)
(* generator for good.                                                     *)
(***************************************************************************)
EXTENDS Integers, Sequences, FiniteSets, TLC

\* ---- bounds of the model ------------------------------------------------
NumRecords == 3        \* rows the table may hold
NumHandlers == 2       \* handler threads that may run at the same time
MaxCommands == 4       \* /quote commands dispatched in one behaviour
SmallBuffer == 2       \* a buffer smaller than the table, besides 1 and 15

\* ---- program constants --------------------------------------------------
db_random_buffer == 15

MaxQueries == MaxCommands + 2   \* the query counter saturates here

Handlers == 1..NumHandlers
\* update.effective_chat.id of the commands handler thread h handles.
ChatOf(h) == 100 + h
NoHandler == 0
NoChat == 0

\* A row of table `quotes` as an object of class Quote.
Quote(i) == [quote_number |-> i,
             date |-> "0" \o ToString(i) \o ".10.2015",
             rating |-> 10 * i,
             text |-> "quote " \o ToString(i)]
Records == {Quote(i) : i \in 1..NumRecords}
NoQuote == [quote_number |-> 0, date |-> "", rating |-> 0, text |-> ""]

\* A variant of __repr__ that shows the text of the quote alone.
ReprTextOnly(q) == q.text

\* Quote.__repr__ : f'#{quote_number} {date}\n+{rating}\n\n{text}'
Repr(q) == "#" \o ToString(q.quote_number) \o " " \o q.date \o "\n+"
           \o ToString(q.rating) \o "\n\n" \o q.text

\* The values the keyword argument `buffer` is given.
BufferValues == {1, SmallBuffer, db_random_buffer}

StoreErrors == {"StoreUnavailable", "StoreCorrupt"}

Min(a, b) == IF a < b THEN a ELSE b

Range(s) == {s[i] : i \in 1..Len(s)}

\* A variant of the query without .limit(n): every row, in a random order.
SampleRandomNoLimit(rows, n) ==
    {s \in [1..Cardinality(rows) -> rows] :
        \A i, j \in 1..Len(s) : i # j => s[i] # s[j]}

\* A variant of the query that draws each of its rows independently, so
\* that a row may come twice in one result.
SampleRandomRepeating(rows, n) == [1..Min(n, Cardinality(rows)) -> rows]

\* session.query(Quote).order_by(func.random()).limit(n).all():
\* the rows in a random order, cut after the first n.
SampleRandom(rows, n) ==
    {s \in [1..Min(n, Cardinality(rows)) -> rows] :
        \A i, j \in 1..Len(s) : i # j => s[i] # s[j]}

\* A variant of list.pop() that gives the first element while it removes
\* the last.
PopValueFirst(l) == l[1]

\* list.pop(): the last element, and the list without it.
PopValue(l) == l[Len(l)]
PopRest(l) == SubSeq(l, 1, Len(l) - 1)

Inc(c) == IF c < MaxQueries THEN c + 1 ELSE c

VARIABLES
    store,         \* rows of table `quotes`
    buffer,        \* argument `buffer` of the generator
    quotes_bound,  \* whether the local `quotes` has been assigned
    quotes,        \* the local `quotes` of the generator frame
    genpc,         \* position of the generator frame
    runner,        \* the handler whose next() is running the frame
    hpc,           \* position of each handler thread
    hquote,        \* the local `quote` of each handler
    outcome,       \* how the last finished next(random_quote) ended
    sent,          \* the last message sent: chat and text
    nsent,         \* messages quote() has sent so far
    commands,      \* /quote commands dispatched so far
    calls,         \* next(random_quote) invocations so far
    queries,       \* store queries so far (saturating)
    callQueries,   \* store queries of the current or last run of the frame
    qlog,          \* what the last store query gave
    lastBatch,     \* the rows the last successful store query returned
    poolAtEntry,   \* the pool when the current or last run was entered
    served,        \* records yielded since the last refill
    nserved        \* records yielded so far

vars == <<store, buffer, quotes_bound, quotes, genpc, runner, hpc,
          hquote, outcome, sent, nsent, commands, calls, queries, callQueries, qlog,
          lastBatch, poolAtEntry, served, nserved>>

genvars == <<quotes_bound, quotes, genpc, runner, queries, callQueries, qlog,
             lastBatch, poolAtEntry, served, nserved>>

\* The Pool: the records the generator still holds.
Pool == IF quotes_bound THEN quotes ELSE <<>>

NoMessage == [chat |-> NoChat, text |-> ""]

\* line 97: the fixed greeting (a Russian sentence, written here in Latin
\* letters).
StartText == "Boshorg-bot. Vvedite /quote dlya sluchajnoj citaty iz luchshih."

\* line 108: f"{str(quote)}\n\n/quote"
QuoteText(q) == Repr(q) \o "\n\n/quote"

\* A variant in which creating the generator already fetches a first batch.
InitPrefetched ==
    /\ store \in SUBSET Records
    /\ buffer \in BufferValues
    /\ quotes_bound = TRUE
    /\ quotes \in SampleRandom(store, buffer)
    /\ lastBatch = quotes
    /\ queries = 1
    /\ qlog = "rows"
    /\ genpc = "created"
    /\ runner = NoHandler
    /\ hpc = [h \in Handlers |-> "idle"]
    /\ hquote = [h \in Handlers |-> NoQuote]
    /\ outcome = "none"
    /\ sent = NoMessage
    /\ nsent = 0
    /\ commands = 0
    /\ calls = 0
    /\ callQueries = 0
    /\ poolAtEntry = <<>>
    /\ served = <<>>
    /\ nserved = 0

\* State after module import: the generator is created (line 74) but no
\* line of its body has run.
Init ==
    /\ store \in SUBSET Records
    /\ buffer \in BufferValues
    /\ quotes_bound = FALSE
    /\ quotes = <<>>
    /\ genpc = "created"
    /\ runner = NoHandler
    /\ hpc = [h \in Handlers |-> "idle"]
    /\ hquote = [h \in Handlers |-> NoQuote]
    /\ outcome = "none"
    /\ sent = NoMessage
    /\ nsent = 0
    /\ commands = 0
    /\ calls = 0
    /\ queries = 0
    /\ callQueries = 0
    /\ qlog = "none"
    /\ lastBatch = <<>>
    /\ poolAtEntry = <<>>
    /\ served = <<>>
    /\ nserved = 0

\* A variant of start() that also asks the store for rows.
StartQuerying(h) ==
    /\ hpc[h] = "idle"
    /\ sent' = [chat |-> ChatOf(h), text |-> StartText]
    /\ queries' = Inc(queries)
    /\ UNCHANGED <<store, buffer, hpc, hquote, outcome, nsent, commands, calls,
                   quotes_bound, quotes, genpc, runner, callQueries, qlog,
                   lastBatch, poolAtEntry, served, nserved>>

\* start(update, context): log, send the fixed text.
Start(h) ==
    /\ hpc[h] = "idle"
    /\ sent' = [chat |-> ChatOf(h), text |-> StartText]
    /\ UNCHANGED <<store, buffer, hpc, hquote, outcome, nsent, commands, calls>>
    /\ UNCHANGED genvars

\* A variant in which a frame that is being run could be entered again.
ResumableWhileRunning == genpc # "closed"

\* The generator can be resumed: it is suspended, before its first line or
\* at the yield.
Resumable == genpc \in {"created", "yield"}

\* quote(update, context), line 103-106: the handler is dispatched, logs and
\* calls next(random_quote).
QuoteCalled(h) ==
    /\ hpc[h] = "idle"
    /\ commands < MaxCommands
    /\ commands' = commands + 1
    /\ calls' = calls + 1

\* line 106, next(random_quote) on a suspended frame: the frame resumes at
\* the top of the while loop.
NextEnter(h) ==
    /\ QuoteCalled(h)
    /\ Resumable
    /\ genpc' = "try"
    /\ runner' = h
    /\ hpc' = [hpc EXCEPT ![h] = "in_next"]
    /\ callQueries' = 0
    /\ poolAtEntry' = Pool
    /\ UNCHANGED <<store, buffer, quotes_bound, quotes, hquote, outcome,
                   sent, nsent, queries, qlog, lastBatch, served, nserved>>

\* line 106, next(random_quote) while another thread runs the frame:
\* ValueError("generator already executing") leaves the handler.
NextAlreadyExecuting(h) ==
    /\ QuoteCalled(h)
    /\ ~Resumable
    /\ genpc # "closed"
    /\ outcome' = "ValueError"
    /\ UNCHANGED <<store, buffer, hpc, hquote, sent, nsent>>
    /\ UNCHANGED genvars

\* line 106, next(random_quote) on a generator an exception has left:
\* StopIteration leaves the handler.
NextStopIteration(h) ==
    /\ QuoteCalled(h)
    /\ genpc = "closed"
    /\ outcome' = "StopIteration"
    /\ UNCHANGED <<store, buffer, hpc, hquote, sent, nsent>>
    /\ UNCHANGED genvars

\* A variant that takes the refill path once on every call, whatever `quotes`
\* holds.
TryRaisesAlways == Pool = <<>> \/ callQueries = 0

\* A variant that refills one call early, when one record is still left.
TryRaisesEarly == Len(Pool) <= 1

\* line 58-59: the try body raises when `quotes` is unassigned (len(quotes)
\* raises UnboundLocalError) or empty (quotes.pop() raises IndexError).
TryRaises == Pool = <<>>

\* line 58-59 raising: len(quotes) on the unassigned local raises
\* UnboundLocalError, quotes.pop() on the empty list raises IndexError;
\* the bare except takes both.
GenTryRaises ==
    /\ genpc = "try"
    /\ TryRaises
    /\ genpc' = "except"
    /\ UNCHANGED <<store, buffer, quotes_bound, quotes, runner, hpc,
                   hquote, outcome, sent, nsent, commands, calls, queries, callQueries,
                   qlog, lastBatch, poolAtEntry, served, nserved>>

\* line 59, yield quotes.pop(): the last element leaves the list and is the
\* value of the caller's next().
GenYield ==
    /\ genpc = "try"
    /\ ~TryRaises
    /\ quotes' = PopRest(quotes)
    /\ hquote' = [hquote EXCEPT ![runner] = PopValue(quotes)]
    /\ outcome' = "quote"
    /\ served' = Append(served, PopValue(quotes))
    /\ nserved' = nserved + 1
    /\ genpc' = "yield"
    /\ hpc' = [hpc EXCEPT ![runner] = "send"]
    /\ runner' = NoHandler
    /\ UNCHANGED <<store, buffer, quotes_bound, sent, nsent, commands,
                   calls, queries, callQueries, qlog, lastBatch, poolAtEntry>>

\* A variant of line 62 that adds the fetched rows to the records already
\* served instead of replacing the list.
GenQueryRowsMerging ==
    /\ genpc = "except"
    /\ \E b \in SampleRandom(store, buffer) :
        /\ quotes' = served \o b
        /\ lastBatch' = b
    /\ quotes_bound' = TRUE
    /\ served' = <<>>
    /\ queries' = Inc(queries)
    /\ callQueries' = Inc(callQueries)
    /\ qlog' = "rows"
    /\ genpc' = "try"
    /\ UNCHANGED <<store, buffer, runner, hpc, hquote, outcome, sent,
                   nsent, commands, calls, poolAtEntry, nserved>>

\* A variant of line 62 that deletes from the table the rows it fetched.
GenQueryRowsConsuming ==
    /\ genpc = "except"
    /\ \E b \in SampleRandom(store, buffer) :
        /\ quotes' = b
        /\ lastBatch' = b
        /\ store' = store \ Range(b)
    /\ quotes_bound' = TRUE
    /\ served' = <<>>
    /\ queries' = Inc(queries)
    /\ callQueries' = Inc(callQueries)
    /\ qlog' = "rows"
    /\ genpc' = "try"
    /\ UNCHANGED <<buffer, runner, hpc, hquote, outcome, sent,
                   nsent, commands, calls, poolAtEntry, nserved>>

\* line 62, the query returns rows: they are assigned to `quotes` and the
\* while loop goes round.
GenQueryRows ==
    /\ genpc = "except"
    /\ \E b \in SampleRandom(store, buffer) :
        /\ quotes' = b
        /\ lastBatch' = b
    /\ quotes_bound' = TRUE
    /\ served' = <<>>
    /\ queries' = Inc(queries)
    /\ callQueries' = Inc(callQueries)
    /\ qlog' = "rows"
    /\ genpc' = "try"
    /\ UNCHANGED <<store, buffer, runner, hpc, hquote, outcome, sent,
                   nsent, commands, calls, poolAtEntry, nserved>>

\* A variant of line 62 raising in which the bare except also swallowed the
\* store's exception and went round the loop again.
GenQueryFailsSwallowed(e) ==
    /\ genpc = "except"
    /\ queries' = Inc(queries)
    /\ callQueries' = Inc(callQueries)
    /\ qlog' = e
    /\ genpc' = "try"
    /\ UNCHANGED <<store, buffer, quotes_bound, quotes, runner, hpc, hquote,
                   outcome, sent, nsent, commands, calls, lastBatch,
                   poolAtEntry, served, nserved>>

\* line 62, the query raises: the exception is raised inside the except
\* body, so nothing catches it; it leaves the frame, which closes the
\* generator, and comes out of the caller's next().
GenQueryFails(e) ==
    /\ genpc = "except"
    /\ queries' = Inc(queries)
    /\ callQueries' = Inc(callQueries)
    /\ qlog' = e
    /\ genpc' = "closed"
    /\ outcome' = e
    /\ hpc' = [hpc EXCEPT ![runner] = "idle"]
    /\ runner' = NoHandler
    /\ UNCHANGED <<store, buffer, quotes_bound, quotes, hquote, sent, nsent,
                   commands, calls, lastBatch, poolAtEntry, served, nserved>>

\* line 108: the quote is sent to the chat of the command.
QuoteSend(h) ==
    /\ hpc[h] = "send"
    /\ sent' = [chat |-> ChatOf(h), text |-> QuoteText(hquote[h])]
    /\ nsent' = nsent + 1
    /\ hpc' = [hpc EXCEPT ![h] = "idle"]
    /\ hquote' = [hquote EXCEPT ![h] = NoQuote]
    /\ UNCHANGED <<store, buffer, outcome, commands, calls>>
    /\ UNCHANGED genvars

GenStep ==
    \/ GenTryRaises
    \/ GenYield
    \/ GenQueryRows
    \/ \E e \in StoreErrors : GenQueryFails(e)

Next ==
    \/ \E h \in Handlers : Start(h)
    \/ \E h \in Handlers : NextEnter(h)
    \/ \E h \in Handlers : NextAlreadyExecuting(h)
    \/ \E h \in Handlers : NextStopIteration(h)
    \/ \E h \in Handlers : QuoteSend(h)
    \/ GenTryRaises
    \/ GenYield
    \/ GenQueryRows
    \/ \E e \in StoreErrors : GenQueryFails(e)

Spec == Init /\ [][Next]_vars

\* The threads keep running: a frame that is being run takes its next step
\* (every store query returns), and a dispatched handler takes its next step.
FairSpec ==
    /\ Spec
    /\ WF_vars(GenStep)
    /\ \A h \in Handlers : WF_vars(QuoteSend(h))

\* A store query has just been answered: the frame leaves the except body.
QueryStep == genpc = "except" /\ genpc' # "except"

\* ---- C1 -----------------------------------------------------------------
\* C1: when the store holds zero records, the next() whose query finds it
\* empty ends with NoQuotesAvailable, the Pool is still empty, and the
\* generator stays resumable, so that the next call queries the store again.
C1_EmptyStoreNoQuotesAvailable ==
    [][(QueryStep /\ qlog' = "rows" /\ lastBatch' = <<>>)
          => /\ outcome' = "NoQuotesAvailable"
             /\ runner' = NoHandler
             /\ Pool' = <<>>
             /\ genpc' \in {"created", "yield"}]_vars

\* ---- C2 -----------------------------------------------------------------
\* C2: every next() that has entered the generator ends, with a record or
\* with a failure, given that every store query returns.
C2_NextTerminates == (runner # NoHandler) ~> (runner = NoHandler)

\* ---- C3 -----------------------------------------------------------------
\* C3: a refill that failed with a store error leaves the Pool empty, and a
\* later next() on the same generator is served again: it never ends with
\* the generator found finished.
C3_RecoversAfterStoreError ==
    /\ qlog \in StoreErrors => Pool = <<>>
    /\ outcome # "StopIteration"

\* ---- C4 -----------------------------------------------------------------
\* C4: when the store query of a refill raises, that exception is what the
\* caller's next() ends with, the Pool stays empty and `quotes` is not
\* assigned.
C4_StoreFailurePropagates ==
    [][(QueryStep /\ qlog' \in StoreErrors)
          => /\ outcome' = qlog'
             /\ hpc'[runner] = "idle"
             /\ runner' = NoHandler
             /\ genpc' = "closed"
             /\ Pool = <<>> /\ Pool' = <<>>
             /\ quotes' = quotes /\ quotes_bound' = quotes_bound
             /\ lastBatch' = lastBatch]_vars

\* C4 witness: a store failure has come out of a next().
C4_Witness == outcome \in StoreErrors /\ qlog = outcome /\ genpc = "closed"

\* ---- C5 -----------------------------------------------------------------
\* C5: one next() issues at most one store query: none when it found the
\* Pool non-empty, one when it found it empty.
C5_AtMostOneQueryPerCall ==
    /\ callQueries <= 1
    /\ poolAtEntry # <<>> => callQueries = 0
    /\ (genpc \in {"yield", "closed"} /\ poolAtEntry = <<>>) => callQueries = 1

\* ---- C6 -----------------------------------------------------------------
\* C6: the Pool never holds more than `buffer` records, and `buffer` is a
\* positive number.
C6_PoolWithinCapacity == buffer >= 1 /\ Len(Pool) \in 0..buffer

\* C6 witness: a refill was cut by the limit: the Pool is full and the
\* store holds more rows than it.
C6_Witness == Len(Pool) = buffer /\ Cardinality(store) > buffer

\* ---- C7 -----------------------------------------------------------------
\* `after` is `before` with one occurrence of r taken out.
RemovedOne(before, after, r) ==
    \E i \in 1..Len(before) :
        /\ before[i] = r
        /\ after = SubSeq(before, 1, i - 1) \o SubSeq(before, i + 1, Len(before))

\* C7: a next() that returns a record r took exactly r out of the Pool: out
\* of the Pool it found when that was not empty, out of the batch it fetched
\* otherwise.
C7_NextRemovesReturned ==
    [][nserved' # nserved
          => /\ outcome' = "quote"
             /\ Len(Pool') = Len(Pool) - 1
             /\ IF poolAtEntry # <<>>
                  THEN /\ callQueries = 0
                       /\ RemovedOne(poolAtEntry, Pool', hquote'[runner])
                  ELSE /\ callQueries = 1
                       /\ RemovedOne(lastBatch, Pool', hquote'[runner])]_vars

\* C7 witness: a next() has returned a record from a Pool of several that
\* it found in stock, and records are left.
C7_Witness ==
    /\ outcome = "quote" /\ genpc = "yield"
    /\ Len(poolAtEntry) >= 2 /\ Len(Pool) = Len(poolAtEntry) - 1

\* ---- C8 -----------------------------------------------------------------
CeilDiv(a, b) == (a + b - 1) \div b

\* Every next() so far has returned a record and none is under way: the
\* calls were made one after the other and the store answered each query.
SequentialSuccesses == genpc \in {"created", "yield"} /\ calls = nserved

\* C8: after k next() calls made one after the other on a store of M >= 1
\* records, the store has been queried ceil(k / min(M, buffer)) times.
C8_QueriesForKCalls ==
    (store # {} /\ SequentialSuccesses)
        => queries = CeilDiv(nserved, Min(Cardinality(store), buffer))

\* C8 witness: M = 3, N = 15: three calls drained the Pool and the fourth
\* has made the second refill.
C8_Witness ==
    /\ Cardinality(store) = 3 /\ buffer = db_random_buffer
    /\ SequentialSuccesses /\ nserved = 4 /\ queries = 2

\* ---- C9 -----------------------------------------------------------------
\* C9: the records returned since the last refill are pairwise distinct.
C9_NoRepeatWithinBatch ==
    \A i, j \in 1..Len(served) : i # j => served[i] # served[j]

\* C9 witness: two records of one batch have been served after an earlier
\* refill, whose records are then served again.
C9_Witness == Len(served) >= 2 /\ queries >= 2

\* ---- C10 ----------------------------------------------------------------
\* C10: at most one next() is inside the generator at a time, the frame runs
\* only on its behalf, and no other call takes the frame over before it has
\* ended.
C10_OneCallInFrame ==
    /\ Cardinality({h \in Handlers : hpc[h] = "in_next"}) <= 1
    /\ \A h \in Handlers : hpc[h] = "in_next" <=> runner = h
    /\ genpc \in {"try", "except"} <=> runner # NoHandler

\* C10 witness: a second next() was attempted while the first was between
\* its emptiness check and its pop, and was turned away.
C10_Witness == outcome = "ValueError" /\ runner # NoHandler /\ genpc = "except"

\* ---- C11 ----------------------------------------------------------------
\* C11: against a non-empty store the store has never been queried more
\* often than next() has been called, and every record a next() returned is
\* a whole row of the store out of the batch last fetched.
C11_QueriesBoundedRecordsWhole ==
    store # {} =>
        /\ queries <= calls
        /\ \A h \in Handlers :
              hpc[h] = "send" => hquote[h] \in Records /\ hquote[h] \in store
        /\ (genpc = "yield" /\ outcome = "quote") =>
              /\ served # <<>>
              /\ served[Len(served)] \in Range(lastBatch)

\* C11 witness: one handler holds the record it was given while the next
\* call, which had to refill, is in the frame.
C11_Witness ==
    /\ store # {} /\ queries >= 2 /\ runner # NoHandler
    /\ \E h \in Handlers : hpc[h] = "send"

\* ---- C12 ----------------------------------------------------------------
Reverse(l) == [i \in 1..Len(l) |-> l[Len(l) + 1 - i]]

\* C12: the Pool is the batch last fetched less the records served from it:
\* no record of an earlier batch is in it and none of the last is missing.
C12_PoolIsLastBatch ==
    /\ lastBatch = Pool \o Reverse(served)
    /\ Range(Pool) \subseteq Range(lastBatch)

\* C12 witness: a second batch is installed and partly served.
C12_Witness == queries >= 2 /\ Pool # <<>> /\ served # <<>> /\ qlog = "rows"

\* ---- C13 ----------------------------------------------------------------
\* C13 as stated: a store failure raised while refilling is taken by the
\* catch-all handler, and the same next() goes round the loop to another
\* refill attempt instead of ending.
C13_StoreFailureRetried ==
    [][(QueryStep /\ qlog' \in StoreErrors)
          => (genpc' = "try" /\ runner' = runner)]_vars

\* C13 as amended: the query is made inside the except body, so a store
\* failure is not caught: it ends the next() that made the query, no further
\* refill is attempted, and the generator is finished from then on.
C13_StoreFailureEndsCall ==
    qlog \in StoreErrors =>
        /\ genpc = "closed"
        /\ runner = NoHandler
        /\ \A h \in Handlers : hpc[h] # "in_next"
        /\ outcome \in {qlog, "StopIteration"}

\* C13 witness: after a store failure a later call found the generator
\* finished; the store was not asked again.
C13_Witness ==
    /\ qlog \in StoreErrors /\ outcome = "StopIteration"
    /\ callQueries = 1 /\ queries = 1

\* ---- C14 ----------------------------------------------------------------
\* C14 as stated: the refill-then-pop sequence is open to a second caller: a
\* next() made while another call has found the Pool empty and has not yet
\* popped enters the frame as well and makes its own refill.
C14_SecondCallerAlsoRefills ==
    [][(calls' # calls /\ runner # NoHandler /\ Pool = <<>>)
          => (runner' # runner /\ runner' # NoHandler)]_vars

\* C14 as amended: a next() made while another call is in the frame is
\* turned away with ValueError, so that one exhaustion leads to one store
\* query and no fetched batch is discarded: with the store answering, every
\* record fetched has been served or is still in the Pool.
C14_EveryBatchServed ==
    /\ Cardinality({h \in Handlers : hpc[h] = "in_next"}) <= 1
    /\ outcome = "ValueError" => calls > nserved
    /\ (store # {} /\ qlog \notin StoreErrors) =>
          nserved + Len(Pool) = queries * Min(Cardinality(store), buffer)

\* C14 witness: two calls met at one exhaustion; one was turned away, the
\* other made the one query and was served.
C14_Witness ==
    /\ store # {} /\ genpc = "yield" /\ qlog = "rows"
    /\ queries = 1 /\ nserved = 1 /\ calls = 2

\* ---- C15 ----------------------------------------------------------------
\* C15: the store is queried only with the Pool empty: the frame is in the
\* except body only then, a next() that found records in the Pool has made
\* no query, and at a refill every record of the batch before has been
\* served.
C15_QueryOnlyWhenEmpty ==
    /\ genpc = "except" => Pool = <<>> /\ Len(served) = Len(lastBatch)
    /\ poolAtEntry # <<>> => callQueries = 0 /\ genpc # "except"

\* C15 witness: a batch of several records has been served to the last
\* one, and the call that found the Pool empty is about to query.
C15_Witness ==
    /\ genpc = "except" /\ Len(lastBatch) >= 2
    /\ Len(served) = Len(lastBatch) /\ callQueries = 0

\* ---- C16 ----------------------------------------------------------------
\* C16: as long as no next() has entered the generator nothing is assigned
\* to `quotes` and the store has not been queried; when the first call has
\* returned its record the store has been queried exactly once.
C16_FirstCallQueriesOnce ==
    /\ genpc = "created" => ~quotes_bound /\ Pool = <<>> /\ queries = 0
    /\ (store # {} /\ nserved = 1 /\ genpc = "yield") => queries = 1
    /\ nserved >= 1 => queries >= 1 /\ quotes_bound

\* C16 witness: the first call has returned a record after one query.
C16_Witness ==
    /\ store # {} /\ nserved = 1 /\ genpc = "yield" /\ queries = 1
    /\ calls = 1 /\ poolAtEntry = <<>>

\* ---- C17 ----------------------------------------------------------------
\* The text shows the record: number, date, rating and text, in this order.
ShowsRecord(t, q) ==
    t = "#" \o ToString(q.quote_number) \o " " \o q.date \o "\n+"
        \o ToString(q.rating) \o "\n\n" \o q.text \o "\n\n/quote"

\* C17: every /quote command has made one next() call; every record a
\* next() returned has been sent once or is about to be; and each message
\* quote() sends goes to the chat of its command and shows the record its
\* next() returned.
C17_OneCallOneReply ==
    /\ [](/\ calls = commands
          /\ nsent + Cardinality({h \in Handlers : hpc[h] = "send"}) = nserved)
    /\ [][nsent' # nsent
            => /\ nsent' = nsent + 1
               /\ \E h \in Handlers :
                    /\ hpc[h] = "send" /\ hpc'[h] = "idle"
                    /\ hquote[h] \in Records
                    /\ sent'.chat = ChatOf(h)
                    /\ ShowsRecord(sent'.text, hquote[h])]_vars

\* C17 witness: both handlers' commands have been answered, the last one in
\* the second chat.
C17_Witness ==
    /\ nsent >= 2 /\ nsent = nserved
    /\ sent.chat = ChatOf(2) /\ \E q \in Records : ShowsRecord(sent.text, q)

\* ---- C18 ----------------------------------------------------------------
\* C18: a message that is not a reply of quote() is the fixed greeting, sent
\* to the chat of the command, and the step that sends it changes nothing
\* else: not the Pool, not the generator, not the store, no counter.
C18_StartIsPure ==
    [][(sent' # sent /\ nsent' = nsent)
          => /\ sent'.text = StartText
             /\ sent'.chat \in {ChatOf(h) : h \in Handlers}
             /\ UNCHANGED <<store, buffer, quotes_bound, quotes, genpc,
                            runner, hpc, hquote, outcome, commands, calls,
                            queries, callQueries, qlog, lastBatch,
                            poolAtEntry, served, nserved>>]_vars

\* C18 witness: /start was answered while the Pool held records and another
\* handler's next() was in the frame.
C18_Witness ==
    /\ sent.text = StartText /\ nserved >= 1
    /\ Pool # <<>> /\ runner # NoHandler

\* ---- C19 ----------------------------------------------------------------
\* C19: no step changes the rows of the table.
C19_StoreNeverChanged == [][store' = store]_vars

\* C19 witness: the table still holds all its rows after two refills, a
\* failed query and replies sent.
C19_Witness ==
    /\ store = Records /\ queries >= 3 /\ qlog \in StoreErrors
    /\ nsent >= 2 /\ sent.text = StartText

TypeOK ==
    /\ store \subseteq Records
    /\ buffer \in BufferValues
    /\ quotes_bound \in BOOLEAN
    /\ Range(quotes) \subseteq Records
    /\ genpc \in {"created", "try", "except", "yield", "closed"}
    /\ runner \in Handlers \cup {NoHandler}
    /\ \A h \in Handlers : hpc[h] \in {"idle", "in_next", "send"}
    /\ queries \in 0..MaxQueries
    /\ callQueries \in 0..MaxQueries
====
